---- MODULE Spec2Model ----
(***************************************************************************)
(* Model of the terminal-prompt module (TerminalPrompt, Options, Result).  *)
(*                                                                         *)
(* Texts that the code compares, trims or matches (input, match, choices,  *)
(* captured replies) are sequences of one-character strings.  The message  *)
(* is only ever interpolated into a script and is kept as an atomic string.*)
(* An optional keyword argument is a set with at most one element: {} when *)
(* the argument is omitted, {v} when the value v is passed.                *)
(***************************************************************************)
EXTENDS Integers, Sequences, FiniteSets, TLC

\* ------------------------------------------------------------------ bounds
MaxClock == 1          \* readings of time.time() range over 0..MaxClock

Procs == {1, 2}        \* concurrent callers of execute

\* --------------------------------------------------------- value universes
DefaultMsg == "Continue? (y/n)"
Msgs == {"Deploy?"}
Inputs == {<<"o", "y", "\n">>}
Patterns == {<<"^", "n", "$">>, <<"(">>}
ChoiceLists == {<<>>, << <<"n">> >>}
\* what a human may type at the free-text prompt
Replies == {<<" ", "n">>}

VARIABLES options,       \* TerminalPrompt.options
          lastCall,      \* <<>>, or <<args>> right after with_options(args)
          pc,            \* per caller: position inside execute
          cache_buster,  \* per caller: local cache_buster
          key,           \* per caller: key given to dag.cache_volume
          ops,           \* per caller: environment operations issued so far
          ret,           \* per caller: what execute returned or raised
          stdout,        \* per caller: what cat printed ({} = nothing yet)
          clock,         \* current reading of time.time()
          cacheVol       \* key -> content of /tmp/prompt/input ({} = absent)

vars == <<options, lastCall, pc, cache_buster, key, ops, ret, stdout, clock,
          cacheVol>>

\* ------------------------------------------------------------ data classes
MkOptions(ci, msg, input, match, choices) ==
    [ci |-> ci, msg |-> msg, input |-> input, match |-> match, choices |-> choices]

OptionsDefault == MkOptions(TRUE, DefaultMsg, <<"n">>, <<"y">>, <<>>)

Result(outcome, input) ==
    [kind |-> "Result", outcome |-> outcome, input |-> input, error |-> "none"]

Raise(e) ==
    [kind |-> "raise", outcome |-> FALSE, input |-> <<>>, error |-> e]

NoRet == [kind |-> "none", outcome |-> FALSE, input |-> <<>>, error |-> "none"]

\* ---------------------------------------------------------------- str.strip
WS == {" ", "\n", "\t"}

RECURSIVE LStrip(_)
LStrip(s) == IF s = <<>> THEN <<>>
             ELSE IF Head(s) \in WS THEN LStrip(Tail(s)) ELSE s

RECURSIVE RStrip(_)
RStrip(s) == IF s = <<>> THEN <<>>
             ELSE IF s[Len(s)] \in WS THEN RStrip(SubSeq(s, 1, Len(s) - 1)) ELSE s

Strip(s) == RStrip(LStrip(s))

\* --------------------------------------------------- shell: echo $var > file
\* The unquoted expansion is split into words on blanks; echo joins the words
\* with single spaces and appends a newline.
RECURSIVE Squeeze(_)
Squeeze(s) == IF s = <<>> THEN <<>>
              ELSE IF Head(s) \in WS THEN <<" ">> \o Squeeze(LStrip(s))
              ELSE <<Head(s)>> \o Squeeze(Tail(s))

Echo(s) == Squeeze(Strip(s)) \o <<"\n">>

\* ----------------------------------------------------------------- re.search
\* Modelled pattern language: literal characters, "^", "$", and "(" which is
\* never closed (re.error: missing ), unterminated subpattern).
PatternInvalid(p) == \E k \in 1..Len(p) : p[k] = "("

\* does p[k..] match s starting at index i (1-based; Len(s)+1 = end of string)
RECURSIVE MatchAt(_, _, _, _)
MatchAt(p, k, s, i) ==
    IF k > Len(p) THEN TRUE
    ELSE IF p[k] = "^" THEN i = 1 /\ MatchAt(p, k + 1, s, i)
    ELSE IF p[k] = "$"
         THEN /\ \/ i = Len(s) + 1
                 \/ i = Len(s) /\ s[i] = "\n"
              /\ MatchAt(p, k + 1, s, i)
    ELSE i <= Len(s) /\ s[i] = p[k] /\ MatchAt(p, k + 1, s, i + 1)

\* variant: the pattern is tried at one position only
ScanOnlyStart(p, s, i) == MatchAt(p, 1, s, i)

RECURSIVE ScanFrom(_, _, _)
ScanFrom(p, s, i) ==
    IF i > Len(s) + 1 THEN FALSE
    ELSE IF MatchAt(p, 1, s, i) THEN TRUE
    ELSE ScanFrom(p, s, i + 1)

\* variant: a pattern that does not compile matches nothing
re_search_lenient(p, s) ==
    IF PatternInvalid(p) THEN [err |-> FALSE, found |-> FALSE]
    ELSE [err |-> FALSE, found |-> ScanFrom(p, s, 1)]

re_search(p, s) ==
    IF PatternInvalid(p) THEN [err |-> TRUE, found |-> FALSE]
    ELSE [err |-> FALSE, found |-> ScanFrom(p, s, 1)]

\* ------------------------------------------------------- list membership
In(x, l) == \E i \in 1..Len(l) : l[i] = x

\* list.index: the position of the first equal element, or ValueError
ListIndex(l, x) ==
    IF In(x, l)
    THEN [raised |-> FALSE,
          idx |-> (CHOOSE i \in 1..Len(l) :
                      l[i] = x /\ \A j \in 1..(i - 1) : l[j] # x) - 1]
    ELSE [raised |-> TRUE, idx |-> -1]

\* ------------------------------------------------------------------ time
FormatTime(t) == ToString(t)

Keys == {FormatTime(t) : t \in 0..MaxClock}

\* ------------------------------------------------------------------- Init
Init ==
    /\ options = OptionsDefault
    /\ lastCall = <<>>
    /\ pc = [p \in Procs |-> "idle"]
    /\ cache_buster = [p \in Procs |-> ""]
    /\ key = [p \in Procs |-> ""]
    /\ ops = [p \in Procs |-> <<>>]
    /\ ret = [p \in Procs |-> NoRet]
    /\ stdout = [p \in Procs |-> {}]
    /\ clock = 0
    /\ cacheVol = [k \in Keys |-> {}]

\* The builder is used before execute: setters run while no call is in flight.
AllIdle == \A p \in Procs : pc[p] = "idle"

session == <<pc, cache_buster, key, ops, ret, stdout>>
env == <<clock, cacheVol>>

\* ---------------------------------------------------------------- setters
Opt(S) == {{}} \cup {{v} : v \in S}

Pick(arg, default) == IF arg = {} THEN default ELSE CHOOSE v \in arg : TRUE

\* with_options is called with each option either omitted or passed
ArgSpace == [ci : Opt({FALSE}), msg : Opt({"Deploy?"}),
             input : Opt({<<"o", "y", "\n">>}),
             match : Opt({<<"^", "n", "$">>}),
             choices : Opt({<< <<"n">> >>})]

\* variant: an omitted option keeps the value the field had
with_options_merge(a) ==
    /\ AllIdle
    /\ options' = MkOptions(Pick(a.ci, options.ci), Pick(a.msg, options.msg),
                            Pick(a.input, options.input),
                            Pick(a.match, options.match),
                            Pick(a.choices, options.choices))
    /\ lastCall' = <<a>>
    /\ UNCHANGED <<session, env>>

with_options(a) ==
    /\ AllIdle
    /\ options' = MkOptions(Pick(a.ci, TRUE), Pick(a.msg, DefaultMsg),
                            Pick(a.input, <<>>), Pick(a.match, <<"y">>),
                            Pick(a.choices, <<>>))
    /\ lastCall' = <<a>>
    /\ UNCHANGED <<session, env>>

with_ci(ci) ==
    /\ AllIdle
    /\ options' = [options EXCEPT !.ci = ci]
    /\ lastCall' = <<>>
    /\ UNCHANGED <<session, env>>

with_msg(msg) ==
    /\ AllIdle
    /\ options' = [options EXCEPT !.msg = msg]
    /\ lastCall' = <<>>
    /\ UNCHANGED <<session, env>>

with_input(input) ==
    /\ AllIdle
    /\ options' = [options EXCEPT !.input = input]
    /\ lastCall' = <<>>
    /\ UNCHANGED <<session, env>>

with_match(match) ==
    /\ AllIdle
    /\ options' = [options EXCEPT !.match = match]
    /\ lastCall' = <<>>
    /\ UNCHANGED <<session, env>>

with_choices(choices) ==
    /\ AllIdle
    /\ options' = [options EXCEPT !.choices = choices]
    /\ lastCall' = <<>>
    /\ UNCHANGED <<session, env>>

\* ---------------------------------------------------------------- execute
\* variant: the choices are ignored and the pattern decides
UnattendedResult_patternOnly(o) ==
    LET m == re_search(o.match, o.input)
    IN IF m.err THEN Raise("re.error") ELSE Result(m.found, o.input)

\* the two unattended branches of execute
UnattendedResult(o) ==
    IF Len(o.choices) > 0
    THEN Result(In(o.input, o.choices), o.input)
    ELSE LET m == re_search(o.match, o.input)
         IN IF m.err THEN Raise("re.error") ELSE Result(m.found, o.input)

\* variant: the supplied input is used up by the call
ExecuteCi_consume(p) ==
    /\ pc[p] = "idle"
    /\ options.ci
    /\ ret' = [ret EXCEPT ![p] = UnattendedResult(options)]
    /\ pc' = [pc EXCEPT ![p] = "done"]
    /\ options' = [options EXCEPT !.input = <<>>]
    /\ lastCall' = <<>>
    /\ UNCHANGED <<cache_buster, key, ops, stdout, env>>

ExecuteCi(p) ==
    /\ pc[p] = "idle"
    /\ options.ci
    /\ ret' = [ret EXCEPT ![p] = UnattendedResult(options)]
    /\ pc' = [pc EXCEPT ![p] = "done"]
    /\ lastCall' = <<>>
    /\ UNCHANGED <<options, cache_buster, key, ops, stdout, env>>

\* user_choice_reply up to the await: one clock reading serves as the marker
\* token and as the cache key
StartChoice(p) ==
    /\ pc[p] = "idle"
    /\ ~options.ci
    /\ Len(options.choices) > 0
    /\ cache_buster' = [cache_buster EXCEPT ![p] = FormatTime(clock)]
    /\ key' = [key EXCEPT ![p] = FormatTime(clock)]
    /\ pc' = [pc EXCEPT ![p] = "mount"]
    /\ lastCall' = <<>>
    /\ UNCHANGED <<options, ops, ret, stdout, env>>

\* user_text_reply up to the await: the clock is read once for cache_buster and
\* a second time for the cache key; t2 is the second reading
StartText(p) ==
    /\ pc[p] = "idle"
    /\ ~options.ci
    /\ Len(options.choices) = 0
    /\ \E t2 \in {clock, clock + 1} \cap (0..MaxClock) :
          /\ cache_buster' = [cache_buster EXCEPT ![p] = FormatTime(clock)]
          /\ key' = [key EXCEPT ![p] = FormatTime(t2)]
          /\ clock' = t2
    /\ pc' = [pc EXCEPT ![p] = "mount"]
    /\ lastCall' = <<>>
    /\ UNCHANGED <<options, ops, ret, stdout, cacheVol>>

execute(p) == ExecuteCi(p) \/ StartChoice(p) \/ StartText(p)

\* --------------------------------------- the awaited container pipeline
Issue(p, op, arg) == ops' = [ops EXCEPT ![p] = Append(@, <<op, arg>>)]

\* .with_mounted_cache("/tmp/prompt", dag.cache_volume(key=...))
Mount(p) ==
    /\ pc[p] = "mount"
    /\ Issue(p, "cache_volume", key[p])
    /\ pc' = [pc EXCEPT ![p] = "terminal"]
    /\ UNCHANGED <<options, lastCall, cache_buster, key, ret, stdout, env>>

WriteInput(p, text) == cacheVol' = [cacheVol EXCEPT ![key[p]] = {Echo(text)}]

\* .terminal(...) of the choice session: the select loop ends when a listed
\* number is typed (choice = that word) or at end of input (choice empty);
\* then `echo $choice > /tmp/prompt/input` runs
TerminalSelect(p) ==
    /\ pc[p] = "terminal"
    /\ Len(options.choices) > 0
    /\ \/ \E n \in 1..Len(options.choices) : WriteInput(p, options.choices[n])
       \/ WriteInput(p, <<>>)
    /\ Issue(p, "terminal", "answered")
    /\ pc' = [pc EXCEPT ![p] = "marker"]
    /\ UNCHANGED <<options, lastCall, cache_buster, key, ret, stdout, clock>>

\* .terminal(...) of the free-text session:
\* `read -p msg && echo $REPLY > /tmp/prompt/input`
TerminalRead(p) ==
    /\ pc[p] = "terminal"
    /\ Len(options.choices) = 0
    /\ \E r \in Replies : WriteInput(p, r)
    /\ Issue(p, "terminal", "answered")
    /\ pc' = [pc EXCEPT ![p] = "marker"]
    /\ UNCHANGED <<options, lastCall, cache_buster, key, ret, stdout, clock>>

\* the human interrupts the session (^C): the script dies before its echo
TerminalAbort(p) ==
    /\ pc[p] = "terminal"
    /\ Issue(p, "terminal", "interrupted")
    /\ pc' = [pc EXCEPT ![p] = "marker"]
    /\ UNCHANGED <<options, lastCall, cache_buster, key, ret, stdout, env>>

\* .with_exec(["sh", "-c", f": {cache_buster} && exit 0"])
Marker(p) ==
    /\ pc[p] = "marker"
    /\ Issue(p, "with_exec", cache_buster[p])
    /\ pc' = [pc EXCEPT ![p] = "cat"]
    /\ UNCHANGED <<options, lastCall, cache_buster, key, ret, stdout, env>>

\* what user_choice_reply makes of the stdout of cat
ChoiceResult(o, response) ==
    LET i == ListIndex(o.choices, Strip(response))
    IN IF i.raised THEN Raise("ValueError") ELSE Result(i.idx # -1, response)

\* what user_text_reply makes of the stdout of cat
TextResult(o, out) ==
    LET response == Strip(out)
        m == re_search(o.match, response)
    IN IF m.err THEN Raise("re.error") ELSE Result(m.found, response)

\* .with_exec(["cat", "/tmp/prompt/input"]).stdout() and the return statement
Cat(p) ==
    /\ pc[p] = "cat"
    /\ Issue(p, "cat", "")
    /\ stdout' = [stdout EXCEPT ![p] = cacheVol[key[p]]]
    /\ ret' = [ret EXCEPT ![p] =
          IF cacheVol[key[p]] = {} THEN Raise("ExecError")
          ELSE LET out == CHOOSE c \in cacheVol[key[p]] : TRUE
               IN IF Len(options.choices) > 0
                  THEN ChoiceResult(options, out)
                  ELSE TextResult(options, out)]
    /\ pc' = [pc EXCEPT ![p] = "done"]
    /\ UNCHANGED <<options, lastCall, cache_buster, key, env>>

\* any operation of the pipeline may fail in the engine; the exception leaves
\* execute, which has no handler
PipelineOp(p) == CASE pc[p] = "mount" -> <<"cache_volume", key[p]>>
                   [] pc[p] = "terminal" -> <<"terminal", "failed">>
                   [] pc[p] = "marker" -> <<"with_exec", cache_buster[p]>>
                   [] pc[p] = "cat" -> <<"cat", "">>

EnvFault(p) ==
    /\ pc[p] \in {"mount", "terminal", "marker", "cat"}
    /\ ops' = [ops EXCEPT ![p] = Append(@, PipelineOp(p))]
    /\ ret' = [ret EXCEPT ![p] = Raise("ExecError")]
    /\ pc' = [pc EXCEPT ![p] = "done"]
    /\ UNCHANGED <<options, lastCall, cache_buster, key, stdout, env>>

\* the caller has taken the result; the next call starts afresh
Return(p) ==
    /\ pc[p] = "done"
    /\ pc' = [pc EXCEPT ![p] = "idle"]
    /\ cache_buster' = [cache_buster EXCEPT ![p] = ""]
    /\ key' = [key EXCEPT ![p] = ""]
    /\ ops' = [ops EXCEPT ![p] = <<>>]
    /\ ret' = [ret EXCEPT ![p] = NoRet]
    /\ stdout' = [stdout EXCEPT ![p] = {}]
    /\ UNCHANGED <<options, lastCall, env>>

\* time passes
Tick ==
    /\ clock < MaxClock
    /\ clock' = clock + 1
    /\ UNCHANGED <<options, lastCall, session, cacheVol>>

Next ==
    \/ \E a \in ArgSpace : with_options(a)
    \/ \E ci \in BOOLEAN : with_ci(ci)
    \/ \E msg \in Msgs : with_msg(msg)
    \/ \E input \in Inputs : with_input(input)
    \/ \E match \in Patterns : with_match(match)
    \/ \E choices \in ChoiceLists : with_choices(choices)
    \/ \E p \in Procs : execute(p)
    \/ \E p \in Procs : Mount(p)
    \/ \E p \in Procs : TerminalSelect(p)
    \/ \E p \in Procs : TerminalRead(p)
    \/ \E p \in Procs : TerminalAbort(p)
    \/ \E p \in Procs : Marker(p)
    \/ \E p \in Procs : Cat(p)
    \/ \E p \in Procs : EnvFault(p)
    \/ \E p \in Procs : Return(p)
    \/ Tick

Spec == Init /\ [][Next]_vars

\* ================================================================ claims
Done(p) == pc[p] = "done"

Returned(p) == Done(p) /\ ret[p].kind = "Result"

Issued(p, op) == \E i \in 1..Len(ops[p]) : ops[p][i][1] = op

OpNames(p) == [i \in 1..Len(ops[p]) |-> ops[p][i][1]]

NoRetry(p) ==
    \A i, j \in 1..Len(ops[p]) : i # j => ops[p][i][1] # ops[p][j][1]

Interrupted(p) ==
    \E i \in 1..Len(ops[p]) : ops[p][i] = <<"terminal", "interrupted">>

\* C1: an unattended call with a non-empty choices list returns a Result whose
\* outcome is true exactly when the supplied input equals, character for
\* character, some element of choices, and whose input is the supplied input.
C1_UnattendedChoice ==
    \A p \in Procs :
        (Done(p) /\ options.ci /\ Len(options.choices) > 0) =>
            /\ ret[p].kind = "Result"
            /\ ret[p].outcome <=>
                  \E n \in 1..Len(options.choices) :
                      /\ Len(options.choices[n]) = Len(options.input)
                      /\ \A k \in 1..Len(options.input) :
                            options.choices[n][k] = options.input[k]
            /\ ret[p].input = options.input

C1_Witness ==
    \E p \in Procs :
        /\ Done(p) /\ options.ci
        /\ options.choices = << <<"n">> >>
        /\ options.input = <<"n">>
        /\ ret[p] = Result(TRUE, <<"n">>)

\* C2: an unattended call with an empty choices list and a pattern that
\* compiles returns a Result whose outcome is true exactly when some substring
\* of the supplied input is matched by the pattern (its literal text, with ^
\* holding only at the start and $ only at the end of the input or before a
\* final newline), and whose input is the supplied input.
C2_UnattendedPattern ==
    \A p \in Procs :
        (Done(p) /\ options.ci /\ Len(options.choices) = 0
                 /\ ~PatternInvalid(options.match)) =>
            LET pat == options.match
                s == options.input
                core == SelectSeq(pat, LAMBDA c : c \notin {"^", "$"})
                atStart == pat # <<>> /\ pat[1] = "^"
                atEnd == pat # <<>> /\ pat[Len(pat)] = "$"
                hit == \E i \in 1..(Len(s) + 1) : \E j \in (i - 1)..Len(s) :
                          /\ SubSeq(s, i, j) = core
                          /\ atStart => i = 1
                          /\ atEnd => \/ j = Len(s)
                                      \/ j = Len(s) - 1 /\ s[Len(s)] = "\n"
            IN /\ ret[p].kind = "Result"
               /\ ret[p].outcome <=> hit
               /\ ret[p].input = s

C2_Witness ==
    \E p \in Procs :
        /\ Done(p) /\ options.ci /\ options.choices = <<>>
        /\ options.match = <<"y">>
        /\ options.input = <<"o", "y", "\n">>
        /\ ret[p] = Result(TRUE, <<"o", "y", "\n">>)

\* C3: no two sessions ever mount the cache location under the same key.
C3_DistinctKeys ==
    \A p, q \in Procs :
        (p # q /\ Issued(p, "cache_volume") /\ Issued(q, "cache_volume")) =>
            key[p] # key[q]

\* C4: an attended call whose human interrupted the session, or one of whose
\* environment operations failed, ends in an error and never in a Result; no
\* operation is issued twice.
C4_AbortIsFatal ==
    \A p \in Procs :
        /\ NoRetry(p)
        /\ (Done(p) /\ Interrupted(p)) => ret[p].kind = "raise"
        /\ (Done(p) /\ Issued(p, "cache_volume") /\ ~Issued(p, "cat")) =>
              ret[p].kind = "raise"

\* C5: in the attended choice session, whenever the read-back succeeds the
\* call returns a Result whose outcome tells whether the captured text,
\* trimmed, is an element of choices.
C5_ChoiceOutcome ==
    \A p \in Procs :
        (Done(p) /\ ~options.ci /\ Len(options.choices) > 0
                 /\ stdout[p] # {}) =>
            /\ ret[p].kind = "Result"
            /\ ret[p].outcome <=>
                  \E c \in stdout[p] : In(Strip(c), options.choices)

\* C6: in an attended session, choice or free-text, the input of the returned
\* Result is the captured text with surrounding whitespace removed.
C6_InputTrimmed ==
    \A p \in Procs :
        (Returned(p) /\ ~options.ci) =>
            \A c \in stdout[p] : ret[p].input = Strip(c)

\* C7 as stated: in pattern mode with a pattern that does not compile, the
\* call ends in an error, returns no Result, issues no operation twice, and
\* the error comes before any interactive session is opened.
C7_InvalidPatternBeforeSession ==
    (Len(options.choices) = 0 /\ PatternInvalid(options.match)) =>
        \A p \in Procs :
            /\ Done(p) => ret[p].kind = "raise"
            /\ NoRetry(p)
            /\ ~Issued(p, "terminal")

\* C7 as amended: in pattern mode with a pattern that does not compile, the
\* call ends in an error, returns no Result and issues no operation twice;
\* unattended, the pattern error comes before any environment operation;
\* attended, it comes only after the whole pipeline (mount, terminal, marker,
\* read-back) has run.
C7_InvalidPatternFatal ==
    (Len(options.choices) = 0 /\ PatternInvalid(options.match)) =>
        \A p \in Procs :
            /\ Done(p) => ret[p].kind = "raise"
            /\ NoRetry(p)
            /\ (Done(p) /\ options.ci) =>
                  ret[p].error = "re.error" /\ ops[p] = <<>>
            /\ (Done(p) /\ ~options.ci /\ ret[p].error = "re.error") =>
                  OpNames(p) = <<"cache_volume", "terminal", "with_exec", "cat">>

C7_Witness ==
    \E p \in Procs :
        /\ Done(p) /\ ~options.ci /\ options.choices = <<>>
        /\ options.match = <<"(">>
        /\ ret[p] = Raise("re.error")
        /\ ops[p][2] = <<"terminal", "answered">>

\* C8: right after with_options every field holds the value passed for it or,
\* when the option was omitted, its documented default.
C8_WithOptionsReplacesAll ==
    lastCall # <<>> =>
        LET a == lastCall[1]
        IN /\ options.ci = (IF a.ci = {} THEN TRUE ELSE \A v \in a.ci : v)
           /\ IF a.msg = {} THEN options.msg = "Continue? (y/n)"
              ELSE options.msg \in a.msg
           /\ IF a.input = {} THEN options.input = <<>>
              ELSE options.input \in a.input
           /\ IF a.match = {} THEN options.match = <<"y">>
              ELSE options.match \in a.match
           /\ IF a.choices = {} THEN options.choices = <<>>
              ELSE options.choices \in a.choices

C8_Witness ==
    /\ lastCall # <<>>
    /\ lastCall[1].input = {} /\ lastCall[1].choices = {}
    /\ lastCall[1].ci = {FALSE} /\ lastCall[1].msg = {"Deploy?"}
    /\ options = MkOptions(FALSE, "Deploy?", <<>>, <<"y">>, <<>>)

\* C9: two unattended calls on one configuration return the same thing, and
\* an unattended call changes no configuration field, issues no environment
\* operation and leaves the clock and the cache volumes alone.
C9_UnattendedPure ==
    /\ [](\A p, q \in Procs :
            (Done(p) /\ Done(q) /\ options.ci) =>
                ret[p] = ret[q] /\ ops[p] = <<>>)
    /\ [][\A p \in Procs :
            (pc[p] = "idle" /\ pc'[p] = "done") =>
                /\ options' = options
                /\ ops' = ops
                /\ clock' = clock
                /\ cacheVol' = cacheVol]_vars

C9_Witness ==
    /\ options.ci
    /\ \A p \in Procs : Returned(p) /\ ret[p].outcome
    /\ options.input = <<"o", "y", "\n">>

\* C10: in every attended session the token of the marker command equals the
\* key under which the session mounted its cache location.
C10_MarkerTokenIsKey ==
    \A p \in Procs :
        \A i, j \in 1..Len(ops[p]) :
            (ops[p][i][1] = "cache_volume" /\ ops[p][j][1] = "with_exec") =>
                ops[p][j][2] = ops[p][i][2]

\* C11: a TerminalPrompt on which no setter was called (its options are those
\* of Init) holds the configuration that with_options called with no argument
\* leaves, so that execute returns the same outcome and input for both.
C11_FreshEqualsNoArgOptions ==
    (lastCall # <<>> /\ \A f \in DOMAIN lastCall[1] : lastCall[1][f] = {}) =>
        /\ options = OptionsDefault
        /\ UnattendedResult(options) = UnattendedResult(OptionsDefault)

====
